---- MODULE Spec2Model ----
(***************************************************************************)
(* Popover engine of the site (src/unnamed/part_001): hover previews for   *)
(* internal links, nested up to MAX_POPOVER_DEPTH, with per-depth hide     *)
(* timers and a teardown on navigation.                                    *)
(*                                                                         *)
(* The browser runs one handler at a time.  A handler runs to its first    *)
(* await or to its end in one step; the continuation after the fetch is a  *)
(* later step.  A pointer move dispatches the leave handlers of the place  *)
(* left and then the enter handlers of the place entered, in one task.     *)
(***************************************************************************)
EXTENDS Bags, FiniteSets, Integers, Sequences, TLC

VARIABLES activeAnchor, activePopoverStack, hideTimeouts, popoverListenersAttached,
          body, timers, pending, fetched, pointer, last, site

vars == <<activeAnchor, activePopoverStack, hideTimeouts, popoverListenersAttached,
          body, timers, pending, fetched, pointer, last, site>>

(***************************************************************************)
(* Program constants and bounds                                            *)
(***************************************************************************)
MAX_POPOVER_DEPTH == 3

\* fetches issued per normalized URL within one navigation session
MaxFetches == 2
\* handler invocations suspended at the fetch at any one time
MaxPending == 2

(***************************************************************************)
(* The site: pages, the internal links of the base document and the        *)
(* internal links and heading ids found in each page's preview content.    *)
(***************************************************************************)
Paths == {"a", "b", "c"}
NoFetches == [a |-> 0, b |-> 0, c |-> 0]

NoHash == <<>>
HashS1 == <<"#", "s1">>
HashS2 == <<"#", "s2">>

Link(path, hash, np) == [path |-> path, hash |-> hash, noPopover |-> np]

\* A site: the internal links of the base document (doc), and the internal
\* links (links) and the element ids (ids) of each page's preview content.

\* Two pages that link to each other; the document links to two sections of
\* page a and has a link that opts out of previews.
CycleSite ==
    [doc |-> { Link("a", HashS1, FALSE), Link("a", HashS2, FALSE),
               Link("b", NoHash, TRUE) },
     links |-> [a |-> { Link("b", NoHash, FALSE) },
                b |-> { Link("a", NoHash, FALSE) },
                c |-> {}],
     ids |-> [a |-> { <<"s1">>, <<"s2">> }, b |-> {}, c |-> {}]]

\* A chain of pages: the document links to a, a to b, b to c.
ChainSite ==
    [doc |-> { Link("a", NoHash, FALSE) },
     links |-> [a |-> { Link("b", NoHash, FALSE) },
                b |-> { Link("c", NoHash, FALSE) },
                c |-> {}],
     ids |-> [a |-> {}, b |-> {}, c |-> {}]]

DocLinks == site.doc
PageLinks(path) == site.links[path]
PageIds(path) == site.ids[path]

\* A link element: the static link and the popover element that contains it
\* (el = 0: the base document).
Doc == 0
LinkEl(el, ln) == [el |-> el, ln |-> ln]
Null == [el |-> -1, ln |-> Link("", NoHash, FALSE)]

\* dataset.depth not set
NoDepth == -1
\* empty slot of a sparse array
Hole == 0

\* Places the pointer can be
Outside == [kind |-> "outside", el |-> Doc, ln |-> Null.ln]
OnLink(el, ln) == [kind |-> "link", el |-> el, ln |-> ln]
InPopover(el) == [kind |-> "popover", el |-> el, ln |-> Null.ln]

(***************************************************************************)
(* The mutable state as one record, so that handlers compose.              *)
(*                                                                         *)
(* body: the popover elements of the document in document order, each     *)
(* with its id, whether its content is parsed HTML, the active-popover     *)
(* class, dataset.depth, whether its own mouseenter/mouseleave listeners   *)
(* are added, and the heading its inner element was last scrolled to.      *)
(* activePopoverStack holds indices into body.  timers: the timers the     *)
(* browser will still fire.  pending: handlers suspended at the fetch.     *)
(* fetched: fetches issued per path since the last navigation.  pointer:   *)
(* where the pointer is.  last: the event handled last (for a move, the    *)
(* place left; for a settled fetch, its outcome).                          *)
(***************************************************************************)
Cur == [anchor |-> activeAnchor, stack |-> activePopoverStack,
        hideTimeouts |-> hideTimeouts, attached |-> popoverListenersAttached,
        body |-> body, timers |-> timers, pending |-> pending,
        fetched |-> fetched]

Becomes(s) ==
    /\ activeAnchor' = s.anchor
    /\ activePopoverStack' = s.stack
    /\ hideTimeouts' = s.hideTimeouts
    /\ popoverListenersAttached' = s.attached
    /\ body' = s.body
    /\ timers' = s.timers
    /\ pending' = s.pending
    /\ fetched' = s.fetched

Min(S) == CHOOSE x \in S : \A y \in S : x <= y

\* document.getElementById: the first element in document order with that id
getElementById(s, id) ==
    LET hits == { e \in 1..Len(s.body) : s.body[e].id = id }
    IN  IF hits = {} THEN 0 ELSE Min(hits)

\* `popover-${link.pathname}`
PopoverId(ln) == <<"popover-", ln.path>>

(***************************************************************************)
(* Depth of elements                                                       *)
(***************************************************************************)
\* parseInt(parent.dataset.depth || "0")
ParseDepthOrZero(d) == IF d = NoDepth THEN 0 ELSE d

getPopoverDepth(s, e) == ParseDepthOrZero(s.body[e].depth)

getCurrentPopoverDepth(s, link) ==
    IF link.el = Doc THEN 0 ELSE ParseDepthOrZero(s.body[link.el].depth) + 1

(***************************************************************************)
(* Depth stack                                                             *)
(***************************************************************************)
RECURSIVE Holes(_)
Holes(n) == IF n <= 0 THEN <<>> ELSE Append(Holes(n - 1), Hole)

\* Writing array.length: truncates, or extends with empty slots
SetLength(stack, n) ==
    IF n <= Len(stack) THEN SubSeq(stack, 1, n)
    ELSE stack \o Holes(n - Len(stack))

\* array[i] = v with a 0-based i
SetSlot(stack, i, v) ==
    IF i < Len(stack) THEN [stack EXCEPT ![i + 1] = v]
    ELSE Append(SetLength(stack, i), v)

RECURSIVE RemoveActive(_, _)
RemoveActive(elems, S) ==
    IF S = {} THEN elems
    ELSE LET e == CHOOSE x \in S : TRUE
         IN  RemoveActive([elems EXCEPT ![e].active = FALSE], S \ {e})

clearDeeperPopovers(s, keepDepth) ==
    LET cleared == { s.stack[i] : i \in (keepDepth + 1)..Len(s.stack) } \ {Hole}
    IN  [s EXCEPT !.body = RemoveActive(s.body, cleared),
                  !.stack = SetLength(s.stack, keepDepth)]

(***************************************************************************)
(* Hide timers                                                             *)
(***************************************************************************)
\* The registry hideTimeouts is a Map from depth to timer id, written as the
\* set of its entries.
Keys(m) == { x.depth : x \in m }
Get(m, depth) == (CHOOSE x \in m : x.depth = depth).id
MapSet(m, depth, id) == { x \in m : x.depth # depth } \cup { [id |-> id, depth |-> depth] }
MapDelete(m, depth) == { x \in m : x.depth # depth }

\* window.setTimeout returns an id that no earlier timer has.  An id is
\* written <<depth, k>>; the new one is the first that is neither a live
\* timer's nor remembered in the registry.
FreshTimerId(s, depth) ==
    LET used == { t.id : t \in s.timers } \cup { x.id : x \in s.hideTimeouts }
        k == Min({ n \in 1..(Cardinality(used) + 1) : <<depth, n>> \notin used })
    IN  <<depth, k>>

clearTimeout(tms, id) == { t \in tms : t.id # id }

\* scheduleHideAtDepth without the clearTimeout of the timer it replaces
scheduleHideAtDepthKeepsOld(s, depth) ==
    LET timeoutId == FreshTimerId(s, depth)
    IN  [s EXCEPT !.timers = @ \cup { [id |-> timeoutId, depth |-> depth] },
                  !.hideTimeouts = MapSet(s.hideTimeouts, depth, timeoutId)]

scheduleHideAtDepth(s, depth) ==
    LET live == IF depth \in Keys(s.hideTimeouts)
                THEN clearTimeout(s.timers, Get(s.hideTimeouts, depth))
                ELSE s.timers
        timeoutId == FreshTimerId(s, depth)
    IN  [s EXCEPT !.timers = live \cup { [id |-> timeoutId, depth |-> depth] },
                  !.hideTimeouts = MapSet(s.hideTimeouts, depth, timeoutId)]

\* cancelHideTimeoutsFromDepth that spares the timer at the depth itself
cancelHideTimeoutsBelowDepth(s, depth) ==
    LET gone == { x \in s.hideTimeouts : x.depth > depth }
    IN  [s EXCEPT !.timers = { t \in s.timers : t.id \notin { x.id : x \in gone } },
                  !.hideTimeouts = s.hideTimeouts \ gone]

cancelHideTimeoutsFromDepth(s, depth) ==
    LET gone == { x \in s.hideTimeouts : x.depth >= depth }
    IN  [s EXCEPT !.timers = { t \in s.timers : t.id \notin { x.id : x \in gone } },
                  !.hideTimeouts = s.hideTimeouts \ gone]

\* the callback given to setTimeout
hideTimeoutCallback(s, depth) ==
    LET c == clearDeeperPopovers(s, depth)
    IN  [c EXCEPT !.hideTimeouts = MapDelete(c.hideTimeouts, depth)]

(***************************************************************************)
(* Listener attachment tracker                                             *)
(***************************************************************************)
ElPath(el) == el.id[2]

\* popoverElement.querySelectorAll("a.internal")
InternalLinks(el) == IF el.html THEN PageLinks(ElPath(el)) ELSE {}

\* popoverListenersAttached, written as the set of the link elements that
\* are in the set of their popover
attachPopoverListeners(s, e) ==
    [s EXCEPT !.attached = @ \cup { LinkEl(e, ln) : ln \in InternalLinks(s.body[e]) }]

\* the link carries the mouseenter listener
Listening(s, link) == link.el = Doc \/ link \in s.attached

(***************************************************************************)
(* Hover-intent controller                                                 *)
(***************************************************************************)
\* `#popover-internal-${hash.slice(1)}`, as the id it selects
TargetAnchor(hash) == <<"popover-internal-">> \o Tail(hash)

\* ids of the fetched content after the prefixing of lines 127-130
PrefixedIds(el) ==
    IF el.html THEN { <<"popover-internal-">> \o id : id \in PageIds(ElPath(el)) }
    ELSE {}

NoScroll == <<>>

\* showPopover up to the write of activePopoverStack[depth] (lines 49-60)
showPopoverStack(s, e, depth) ==
    LET c == clearDeeperPopovers(s, depth)
    IN  [c EXCEPT !.body[e].active = TRUE,
                  !.body[e].depth = depth,
                  !.stack = SetSlot(c.stack, depth, e)]

\* showPopover as the creation path runs it: popoverInner is the inner
\* element of the popover being shown (lines 62-69)
showPopover(s, e, depth, hash) ==
    LET c == showPopoverStack(s, e, depth)
    IN  IF hash # NoHash /\ TargetAnchor(hash) \in PrefixedIds(c.body[e])
        THEN [c EXCEPT !.body[e].scroll = TargetAnchor(hash)]
        ELSE c

\* The reuse path (lines 79-85).  showPopover runs before line 98 has
\* initialised popoverInner, so with a non-empty hash line 64 throws and the
\* handler ends there, after the stack write and before
\* attachPopoverListeners.
reusePopover(s, prev, depth, hash) ==
    LET c == showPopoverStack(s, prev, depth)
    IN  IF hash # NoHash THEN c ELSE attachPopoverListeners(c, prev)

Continuation(link, depth) == [this |-> link, depth |-> depth, stale |-> FALSE]

\* mouseEnterHandler that lets a link at depth MAX_POPOVER_DEPTH through
mouseEnterHandlerDepthOffByOne(s, link) ==
    LET s0 == [s EXCEPT !.anchor = link]
        currentDepth == getCurrentPopoverDepth(s0, link)
        s1 == cancelHideTimeoutsFromDepth(s0, currentDepth)
        prev == getElementById(s1, PopoverId(link.ln))
    IN  IF link.ln.noPopover THEN s0
        ELSE IF currentDepth > MAX_POPOVER_DEPTH THEN s1
        ELSE IF prev # 0 THEN reusePopover(s1, prev, currentDepth, link.ln.hash)
        ELSE [s1 EXCEPT !.pending = @ (+) SetToBag({Continuation(link, currentDepth)}),
                        !.fetched[link.ln.path] = @ + 1]

\* mouseEnterHandler that fetches again when the popover exists and only
\* then shows it
mouseEnterHandlerRefetches(s, link) ==
    LET s0 == [s EXCEPT !.anchor = link]
        currentDepth == getCurrentPopoverDepth(s0, link)
        s1 == cancelHideTimeoutsFromDepth(s0, currentDepth)
        prev == getElementById(s1, PopoverId(link.ln))
        s2 == IF prev # 0 THEN reusePopover(s1, prev, currentDepth, link.ln.hash) ELSE s1
    IN  IF link.ln.noPopover THEN s0
        ELSE IF currentDepth >= MAX_POPOVER_DEPTH THEN s1
        ELSE [s2 EXCEPT !.pending = @ (+) SetToBag({Continuation(link, currentDepth)}),
                        !.fetched[link.ln.path] = @ + 1]

\* mouseEnterHandler that cancels the hide timers of every depth
mouseEnterHandlerCancelsAll(s, link) ==
    LET s0 == [s EXCEPT !.anchor = link]
        currentDepth == getCurrentPopoverDepth(s0, link)
        s1 == cancelHideTimeoutsFromDepth(s0, 0)
        prev == getElementById(s1, PopoverId(link.ln))
    IN  IF link.ln.noPopover THEN s0
        ELSE IF currentDepth >= MAX_POPOVER_DEPTH THEN s1
        ELSE IF prev # 0 THEN reusePopover(s1, prev, currentDepth, link.ln.hash)
        ELSE [s1 EXCEPT !.pending = @ (+) SetToBag({Continuation(link, currentDepth)}),
                        !.fetched[link.ln.path] = @ + 1]

\* mouseEnterHandler up to the await of line 87
mouseEnterHandler(s, link) ==
    LET s0 == [s EXCEPT !.anchor = link]
        currentDepth == getCurrentPopoverDepth(s0, link)
        s1 == cancelHideTimeoutsFromDepth(s0, currentDepth)
        prev == getElementById(s1, PopoverId(link.ln))
    IN  IF link.ln.noPopover THEN s0
        ELSE IF currentDepth >= MAX_POPOVER_DEPTH THEN s1
        ELSE IF prev # 0 THEN reusePopover(s1, prev, currentDepth, link.ln.hash)
        ELSE [s1 EXCEPT !.pending = @ (+) SetToBag({Continuation(link, currentDepth)}),
                        !.fetched[link.ln.path] = @ + 1]

\* What the fetch and the content-type dispatch produce (lines 87-135):
\* "fail" a rejected fetch, "empty" HTML without a popover-hint element,
\* "html" HTML with preview content, "asset" an image, a pdf or another
\* application type (content without links or ids).
FetchResults == {"fail", "empty", "html", "asset"}

NewPopover(ln, result) ==
    [id |-> PopoverId(ln), html |-> (result = "html"), active |-> FALSE,
     depth |-> NoDepth, wired |-> FALSE, scroll |-> NoScroll]

\* the continuation without the second look at the document (line 137)
fetchResumeWithoutDuplicateGuard(s, c, result) ==
    LET s1 == [s EXCEPT !.body = Append(@, NewPopover(c.this.ln, result))]
        e == Len(s1.body)
        s2 == showPopover(s1, e, c.depth, c.this.ln.hash)
        s3 == attachPopoverListeners(s2, e)
    IN  IF result \in {"fail", "empty"} THEN s
        ELSE IF c.stale \/ s1.anchor # c.this THEN s1
        ELSE [s3 EXCEPT !.body[e].wired = TRUE]

\* the continuation that goes on with HTML that has no preview content
fetchResumeKeepsEmpty(s, c, result) ==
    LET s1 == [s EXCEPT !.body = Append(@, NewPopover(c.this.ln, result))]
        e == Len(s1.body)
        s2 == showPopover(s1, e, c.depth, c.this.ln.hash)
        s3 == attachPopoverListeners(s2, e)
    IN  IF result = "fail" THEN s
        ELSE IF getElementById(s, PopoverId(c.this.ln)) # 0 THEN s
        ELSE IF c.stale \/ s1.anchor # c.this THEN s1
        ELSE [s3 EXCEPT !.body[e].wired = TRUE]

\* mouseEnterHandler from the await of line 87 to its end
fetchResume(s, c, result) ==
    LET s1 == [s EXCEPT !.body = Append(@, NewPopover(c.this.ln, result))]
        e == Len(s1.body)
        s2 == showPopover(s1, e, c.depth, c.this.ln.hash)
        s3 == attachPopoverListeners(s2, e)
    IN  IF result \in {"fail", "empty"} THEN s
        ELSE IF getElementById(s, PopoverId(c.this.ln)) # 0 THEN s
        ELSE IF c.stale \/ s1.anchor # c.this THEN s1
        ELSE [s3 EXCEPT !.body[e].wired = TRUE]

\* mouseenter listener of a popover (lines 152-155)
popoverMouseEnter(s, e) ==
    cancelHideTimeoutsFromDepth(s, ParseDepthOrZero(s.body[e].depth))

\* the mouseleave listener with a delayed hide, instead of an immediate
\* one, on the way to a shallower popover
popoverMouseLeaveAlwaysDelays(s, e, to) ==
    LET currentElementDepth == getPopoverDepth(s, e)
        leavingToPopover == IF to.kind = "popover" \/ (to.kind = "link" /\ to.el # Doc)
                            THEN to.el ELSE 0
        leavingToDepth == getPopoverDepth(s, leavingToPopover)
    IN  IF leavingToPopover # 0 /\ leavingToDepth > currentElementDepth THEN s
        ELSE scheduleHideAtDepth(s, currentElementDepth)

\* mouseleave listener of a popover (lines 158-194); to: the place entered
popoverMouseLeave(s, e, to) ==
    LET currentElementDepth == getPopoverDepth(s, e)
        leavingToPopover == IF to.kind = "popover" \/ (to.kind = "link" /\ to.el # Doc)
                            THEN to.el ELSE 0
        leavingToDepth == getPopoverDepth(s, leavingToPopover)
    IN  IF leavingToPopover # 0
        THEN IF leavingToDepth > currentElementDepth THEN s
             ELSE IF leavingToDepth = currentElementDepth
                  THEN scheduleHideAtDepth(s, currentElementDepth)
             ELSE clearDeeperPopovers(s, leavingToDepth + 1)
        ELSE scheduleHideAtDepth(s, currentElementDepth)

\* mouseleave listener of a link of the base document (lines 292-306)
handleLinkLeave(s, to) ==
    IF to.kind = "popover" \/ (to.kind = "link" /\ to.el # Doc)
    THEN s
    ELSE scheduleHideAtDepth(s, 0)

\* the cleanup without the clearTimeout of the pending timers
navCleanupKeepsTimers(s) ==
    [s EXCEPT !.body = <<>>,
              !.attached = {},
              !.stack = <<>>,
              !.anchor = Null,
              !.hideTimeouts = {}]

\* the cleanup registered at lines 320-343
navCleanup(s) ==
    [s EXCEPT !.body = <<>>,
              !.attached = {},
              !.stack = <<>>,
              !.anchor = Null,
              !.timers = { t \in @ : t.id \notin { x.id : x \in s.hideTimeouts } },
              !.hideTimeouts = {}]

(***************************************************************************)
(* The pointer and the events it causes                                    *)
(***************************************************************************)
Elements == 1..Len(body)

\* The popover element a place lies in (0: none)
PopoverOf(place) ==
    IF place.kind = "popover" \/ (place.kind = "link" /\ place.el # Doc)
    THEN place.el ELSE 0

\* The pointer can go to empty space, to a link of the base document, and
\* into a popover that is shown or onto a link inside one.
Places ==
    {Outside}
    \cup { OnLink(Doc, ln) : ln \in DocLinks }
    \cup { InPopover(e) : e \in { x \in Elements : body[x].active } }
    \cup UNION { { OnLink(e, ln) : ln \in InternalLinks(body[e]) } :
                 e \in { x \in Elements : body[x].active } }

\* mouseleave listeners that run when the pointer goes from `from` to `to`
AfterLeave(s, from, to) ==
    IF from.kind = "link" /\ from.el = Doc THEN handleLinkLeave(s, to)
    ELSE IF PopoverOf(from) # 0 /\ PopoverOf(from) # PopoverOf(to)
              /\ s.body[PopoverOf(from)].wired
         THEN popoverMouseLeave(s, PopoverOf(from), to)
    ELSE s

\* mouseenter listeners that run when the pointer goes from `from` to `to`:
\* the popover's before the link's
AfterEnter(s, from, to) ==
    LET s1 == IF PopoverOf(to) # 0 /\ PopoverOf(to) # PopoverOf(from)
                 /\ s.body[PopoverOf(to)].wired
              THEN popoverMouseEnter(s, PopoverOf(to))
              ELSE s
        link == LinkEl(to.el, to.ln)
    IN  IF to.kind = "link" /\ Listening(s1, link)
        THEN mouseEnterHandler(s1, link)
        ELSE s1

WithinBounds(s) ==
    /\ BagCardinality(s.pending) <= MaxPending
    /\ \A p \in Paths : s.fetched[p] <= MaxFetches

PointerMove(to) ==
    /\ to # pointer
    /\ LET s == AfterEnter(AfterLeave(Cur, pointer, to), pointer, to)
       IN  WithinBounds(s) /\ Becomes(s)
    /\ pointer' = to
    /\ last' = [op |-> "move", from |-> pointer, result |-> ""]
    /\ UNCHANGED site

\* A hide timer elapses
TimerFire(t) ==
    /\ Becomes([hideTimeoutCallback(Cur, t.depth) EXCEPT !.timers = @ \ {t}])
    /\ UNCHANGED pointer
    /\ last' = [op |-> "timer", from |-> pointer, result |-> ""]
    /\ UNCHANGED site

\* The fetch of a suspended handler settles and the handler runs to its end
FetchSettle(c, result) ==
    /\ Becomes(fetchResume([Cur EXCEPT !.pending = @ (-) SetToBag({c})], c, result))
    /\ UNCHANGED pointer
    /\ last' = [op |-> "fetch", from |-> pointer, result |-> result]
    /\ UNCHANGED site

\* A suspended handler whose link left the document with the old page: its
\* link is never the Active Anchor again, so all it can still do is insert
\* an element with its popover id; its hash and depth are never used.
Stale(c) == [this |-> LinkEl(Doc, Link(c.this.ln.path, NoHash, FALSE)),
             depth |-> 0, stale |-> TRUE]

RECURSIVE StaleBag(_)
StaleBag(B) ==
    IF B = EmptyBag THEN EmptyBag
    ELSE LET c == CHOOSE x \in BagToSet(B) : TRUE
         IN  StaleBag(B (-) SetToBag({c})) (+) SetToBag({Stale(c)})

\* Navigation: the cleanups run, the document is replaced (the links that
\* suspended handlers hold are no longer in it) and a new session starts.
Navigate ==
    /\ Becomes([navCleanup(Cur) EXCEPT !.pending = StaleBag(pending),
                                       !.fetched = NoFetches])
    /\ pointer' = Outside
    /\ last' = [op |-> "nav", from |-> pointer, result |-> ""]
    /\ UNCHANGED site

InitOn(st) ==
    /\ site = st
    /\ activeAnchor = Null
    /\ activePopoverStack = <<>>
    /\ hideTimeouts = {}
    /\ popoverListenersAttached = {}
    /\ body = <<>>
    /\ timers = {}
    /\ pending = EmptyBag
    /\ fetched = NoFetches
    /\ pointer = Outside
    /\ last = [op |-> "init", from |-> Outside, result |-> ""]

Init == InitOn(CycleSite)

Next ==
    \/ \E to \in Places : PointerMove(to)
    \/ \E t \in timers : TimerFire(t)
    \/ \E c \in BagToSet(pending), result \in FetchResults : FetchSettle(c, result)
    \/ Navigate

Spec == Init /\ [][Next]_vars

\* The browser fires a timer that stays pending: the hide delay elapses.
SpecLive == Init /\ [][Next]_vars /\ WF_vars(\E t \in timers : TimerFire(t))

\* the same program on the chain of pages
InitChain == InitOn(ChainSite)

SpecChain == InitChain /\ [][Next]_vars

(***************************************************************************)
(* Properties                                                              *)
(***************************************************************************)
\* the popover element for a page (0: none in the document)
ElFor(path) == getElementById(Cur, <<"popover-", path>>)

\* every link element of the document: those of the base document and
\* those inside popover elements
LinkElements ==
    { LinkEl(Doc, ln) : ln \in DocLinks }
    \cup UNION { { LinkEl(e, ln) : ln \in InternalLinks(body[e]) } : e \in Elements }

\* C2: in every reachable state, a pointer-enter on a link whose computed
\* depth is at least MAX_POPOVER_DEPTH starts no fetch, inserts no popover
\* element and changes neither the depth stack nor any popover's visibility.
C2_MaxDepthHoverIsNoOp ==
    \A link \in LinkElements :
        (~link.ln.noPopover /\ getCurrentPopoverDepth(Cur, link) >= MAX_POPOVER_DEPTH)
        => LET t == mouseEnterHandler(Cur, link)
           IN  /\ t.pending = pending
               /\ t.fetched = fetched
               /\ t.body = body
               /\ t.stack = activePopoverStack

\* C2 witness: the pointer has entered a listening link at depth 3 inside a
\* popover shown at depth 2, and the stack still has its three slots.
C2_Witness ==
    /\ last.op = "move"
    /\ pointer.kind = "link" /\ pointer.el # Doc
    /\ Listening(Cur, LinkEl(pointer.el, pointer.ln))
    /\ activeAnchor = LinkEl(pointer.el, pointer.ln)
    /\ getCurrentPopoverDepth(Cur, activeAnchor) = MAX_POPOVER_DEPTH
    /\ Len(activePopoverStack) = MAX_POPOVER_DEPTH
    /\ body[pointer.el].active

\* C5: immediately after the navigation teardown the document has no
\* popover element, the depth stack is empty, the Active Anchor is null, the
\* hide-timer registry is empty and no timer is left that could fire.
C5_TeardownLeavesNothing ==
    last.op = "nav" =>
        /\ body = <<>>
        /\ activePopoverStack = <<>>
        /\ activeAnchor = Null
        /\ hideTimeouts = {}
        /\ timers = {}

\* C5 witness: the teardown ran while the pointer was inside a popover and
\* a fetch was in flight.
C5_Witness ==
    /\ last.op = "nav"
    /\ last.from.kind = "popover"
    /\ pending # EmptyBag

\* C8: at most one live hide timer per depth, the registry holds exactly
\* the live timers, each under its own depth.
C8_OneTimerPerDepth ==
    /\ \A t1, t2 \in timers : t1.depth = t2.depth => t1 = t2
    /\ \A t \in timers : t.depth \in Keys(hideTimeouts) /\ Get(hideTimeouts, t.depth) = t.id
    /\ \A d \in Keys(hideTimeouts) : [id |-> Get(hideTimeouts, d), depth |-> d] \in timers

\* C8 witness: a timer at depth 0 was replaced by a newer one (the second id
\* is only handed out while the first is in use) and only the newer is live.
C8_Witness ==
    /\ 0 \in Keys(hideTimeouts)
    /\ Get(hideTimeouts, 0) = <<0, 2>>
    /\ timers = { [id |-> <<0, 2>>, depth |-> 0] }

\* C9: scheduleHideAtDepth(D) followed by cancelHideTimeoutsFromDepth(D')
\* with D' <= D leaves no timer that could run the hide, no registry entry
\* at D, and the stack and every popover as they were.
C9_CancelledHideNeverRuns ==
    \A D \in 0..(MAX_POPOVER_DEPTH - 1) : \A Dc \in 0..D :
        LET s1 == scheduleHideAtDepth(Cur, D)
            id == Get(s1.hideTimeouts, D)
            s2 == cancelHideTimeoutsFromDepth(s1, Dc)
        IN  /\ \A t \in s2.timers : t.id # id /\ t.depth # D
            /\ D \notin Keys(s2.hideTimeouts)
            /\ s2.body = body
            /\ s2.stack = activePopoverStack

\* C9 witness: the pointer left a wired popover for a link of the base
\* document (the leave schedules a hide at the popover's depth, the hover
\* cancels from depth 0); no timer is left and the popover is still shown.
C9_Witness ==
    /\ last.op = "move"
    /\ last.from.kind = "popover"
    /\ last.from.el \in Elements
    /\ body[last.from.el].wired
    /\ body[last.from.el].active
    /\ pointer.kind = "link" /\ pointer.el = Doc /\ ~pointer.ln.noPopover
    /\ timers = {}
    /\ hideTimeouts = {}

Succeeded == {"html", "asset"}

\* a handler suspended at its fetch that is still the hover in progress
Current(c) == ~c.stale /\ activeAnchor = c.this

\* C1: the nesting scenario, step by step.  (A) With no popovers, the fetch
\* of the hovered top-level link L1 succeeds: P1 is inserted and visible at
\* depth 0.  (B) With P1 alone on the stack, the fetch of the hovered link L2
\* inside P1 succeeds: P2 is visible at depth 1 and P1 stays visible.  (C)
\* The pointer goes from P2 into P1: P2 is hidden in that step, no timer is
\* pending, P1 stays visible.  (D) The pointer goes from P1 to empty space:
\* P1 stays visible and a hide timer at depth 0 is pending.  (E) That timer
\* fires: P1 is hidden and the stack is empty.
C1_StepA ==
    \A c \in BagToSet(pending) : \A r \in Succeeded :
        (FetchSettle(c, r) /\ body = <<>> /\ c.this.el = Doc /\ Current(c))
        => /\ Len(body') = 1
           /\ body'[1].active /\ body'[1].depth = 0
           /\ activePopoverStack' = <<1>>

C1_StepB ==
    \A c \in BagToSet(pending) : \A r \in Succeeded : \A P1 \in Elements :
        (/\ FetchSettle(c, r)
         /\ c.this.el = P1 /\ c.depth = 1 /\ Current(c)
         /\ activePopoverStack = <<P1>> /\ body[P1].active /\ body[P1].depth = 0
         /\ ElFor(c.this.ln.path) = 0)
        => LET P2 == Len(body')
           IN  /\ P2 = Len(body) + 1
               /\ body'[P2].active /\ body'[P2].depth = 1
               /\ body'[P1].active
               /\ activePopoverStack' = <<P1, P2>>

C1_StepC ==
    \A P1, P2 \in Elements :
        (/\ PointerMove(InPopover(P1))
         /\ PopoverOf(pointer) = P2 /\ P1 # P2
         /\ activePopoverStack = <<P1, P2>>
         /\ body[P1].active /\ body[P1].depth = 0 /\ body[P1].wired
         /\ body[P2].active /\ body[P2].depth = 1 /\ body[P2].wired)
        => /\ ~body'[P2].active
           /\ body'[P1].active
           /\ activePopoverStack' = <<P1>>
           /\ hideTimeouts' = {} /\ timers' = {}

C1_StepD ==
    \A P1 \in Elements :
        (/\ PointerMove(Outside)
         /\ PopoverOf(pointer) = P1
         /\ activePopoverStack = <<P1>>
         /\ body[P1].active /\ body[P1].depth = 0 /\ body[P1].wired)
        => /\ body'[P1].active
           /\ activePopoverStack' = <<P1>>
           /\ 0 \in Keys(hideTimeouts')
           /\ [id |-> Get(hideTimeouts', 0), depth |-> 0] \in timers'

C1_StepE ==
    \A t \in timers : \A P1 \in Elements :
        (TimerFire(t) /\ t.depth = 0 /\ activePopoverStack = <<P1>> /\ body[P1].active)
        => /\ ~body'[P1].active
           /\ activePopoverStack' = <<>>

C1_NestingScenario ==
    [][C1_StepA /\ C1_StepB /\ C1_StepC /\ C1_StepD /\ C1_StepE]_vars

\* C1 witness: the scenario just before its last step.  One fetch each was
\* issued for the two pages; P1 was created from a top-level link at depth 0
\* and P2 from the link inside P1 at depth 1 (the last link hovered); both
\* carry their listeners; P2 is hidden and P1 still shown; the pointer has
\* just left P1 for empty space and the only timer pending is at depth 0.
C1_Witness ==
    /\ last.op = "move" /\ last.from = InPopover(1) /\ pointer = Outside
    /\ Len(body) = 2
    /\ body[1].depth = 0 /\ body[1].wired /\ body[1].active
    /\ body[2].depth = 1 /\ body[2].wired /\ ~body[2].active
    /\ activeAnchor.el = 1 /\ PopoverId(activeAnchor.ln) = body[2].id
    /\ activePopoverStack = <<1>>
    /\ Keys(hideTimeouts) = {0} /\ Cardinality(timers) = 1
    /\ pending = EmptyBag
    /\ fetched[ElPath(body[1])] = 1 /\ fetched[ElPath(body[2])] = 1

\* C3 as stated: within one navigation session at most one fetch is issued
\* for a normalized URL, whatever the interleaving of the hovers.
C3_OneFetchPerUrl == \A p \in Paths : fetched[p] <= 1

\* a hover that runs mouseEnterHandler past the opt-out and depth checks
HoverStep(link) ==
    /\ last'.op = "move"
    /\ pointer' = OnLink(link.el, link.ln)
    /\ Listening(Cur, link)
    /\ ~link.ln.noPopover
    /\ getCurrentPopoverDepth(Cur, link) < MAX_POPOVER_DEPTH

\* C3 amended: a hover issues a fetch exactly when the document has no
\* popover element for the link's normalized URL at that moment; while the
\* element is in the document no fetch is issued for that URL, and such a
\* hover inserts nothing and shows that element at the computed depth.
C3_FetchOnlyWithoutElement ==
    [][ /\ \A p \in Paths :
              (ElFor(p) # 0 /\ last'.op # "nav") => fetched'[p] = fetched[p]
        /\ \A link \in LinkElements :
              HoverStep(link) =>
                 LET e == ElFor(link.ln.path)
                     d == getCurrentPopoverDepth(Cur, link)
                 IN  IF e = 0
                     THEN fetched'[link.ln.path] = fetched[link.ln.path] + 1
                     ELSE /\ Len(body') = Len(body)
                          /\ pending' = pending
                          /\ body'[e].active /\ body'[e].depth = d
                          /\ activePopoverStack'[d + 1] = e
      ]_vars

\* C3 witness: the popover of page a was created by the hover of the link
\* to a#s1 (it is scrolled to s1), the link to a#s2 has been hovered since,
\* and one fetch was issued for a.
C3_Witness ==
    /\ last.op = "move"
    /\ pointer = OnLink(Doc, Link("a", HashS2, FALSE))
    /\ activeAnchor = LinkEl(Doc, Link("a", HashS2, FALSE))
    /\ ElFor("a") # 0
    /\ body[ElFor("a")].scroll = TargetAnchor(HashS1)
    /\ body[ElFor("a")].active
    /\ fetched["a"] = 1
    /\ pending = EmptyBag

\* C4: for every depth K, clearDeeperPopovers(K) leaves every popover that
\* is shown in a stack slot below K shown, and those slots unchanged.
C4_ClearKeepsShallower ==
    \A K \in 0..MAX_POPOVER_DEPTH :
        LET t == clearDeeperPopovers(Cur, K)
        IN  \A i \in 1..Len(activePopoverStack) :
                (i <= K /\ activePopoverStack[i] # Hole)
                => /\ t.stack[i] = activePopoverStack[i]
                   /\ body[activePopoverStack[i]].active
                      => t.body[activePopoverStack[i]].active

\* C6: when the fetch of a handler that was suspended across a navigation
\* settles, no popover element is added and nothing becomes visible.
C6_NothingSurvivesNavigation ==
    [][ \A c \in BagToSet(pending) : \A r \in FetchResults :
            (c.stale /\ FetchSettle(c, r))
            => /\ body' = body
               /\ activePopoverStack' = activePopoverStack
      ]_vars

\* C7: with the popover of page a in the document, created by the hover of
\* the link to a#s1, the hover of the link to a#s2 inserts no element and
\* issues no fetch, shows the popover at depth 0, scrolls it to the heading
\* of s2, and attaches the listeners of the links inside it.
C7_ReuseScrollsToNewSection ==
    [][ \A e \in Elements :
            (/\ PointerMove(OnLink(Doc, Link("a", HashS2, FALSE)))
             /\ ElFor("a") = e
             /\ body[e].html /\ body[e].scroll = TargetAnchor(HashS1))
            => /\ Len(body') = Len(body)
               /\ fetched' = fetched
               /\ body'[e].active /\ body'[e].depth = 0
               /\ body'[e].scroll = TargetAnchor(HashS2)
               /\ \A ln \in InternalLinks(body[e]) :
                      LinkEl(e, ln) \in popoverListenersAttached'
      ]_vars

\* C10: a popover element has the active-popover class if and only if it
\* is in a slot of activePopoverStack; it is in at most one slot, and its
\* dataset.depth is the index of that slot.
C10_StackIsSourceOfTruth ==
    \A e \in Elements :
        LET slots == { i \in 1..Len(activePopoverStack) : activePopoverStack[i] = e }
        IN  /\ body[e].active <=> slots # {}
            /\ Cardinality(slots) <= 1
            /\ \A i \in slots : body[e].depth = i - 1

\* C11: the depth stack is contiguous: every slot holds a popover that is
\* shown, and below every popover shown at a depth N > 0 a popover is shown
\* at each depth less than N.
C11_StackContiguous ==
    /\ \A i \in 1..Len(activePopoverStack) :
           /\ activePopoverStack[i] # Hole
           /\ body[activePopoverStack[i]].active
    /\ \A e \in Elements :
           body[e].active =>
               \A d \in 0..(body[e].depth - 1) :
                   \E x \in Elements : body[x].active /\ body[x].depth = d

\* C12: the pointer has left the hovered link for empty space, this was the
\* last event, and the link is still the last one hovered; when its fetch
\* now succeeds (before the hide timer fires) no popover for the link is
\* visible afterwards.
C12_NoPopoverAfterMovingAway ==
    [][ \A c \in BagToSet(pending) : \A r \in Succeeded :
            (/\ FetchSettle(c, r)
             /\ Current(c)
             /\ pointer = Outside
             /\ last.op = "move" /\ last.from = OnLink(c.this.el, c.this.ln))
            => \A e \in 1..Len(body') :
                   body'[e].id = PopoverId(c.this.ln) => ~body'[e].active
      ]_vars

\* C13: when a suspended handler resumes with a successful fetch in the
\* session it started in, and another link has become the Active Anchor, it
\* adds no popover element to the document and changes neither the depth
\* stack, nor the visibility of a popover, nor a timer.
C13_ResumeRevalidatesFirst ==
    [][ \A c \in BagToSet(pending) : \A r \in Succeeded :
            (/\ FetchSettle(c, r)
             /\ ~c.stale
             /\ activeAnchor # Null /\ activeAnchor # c.this)
            => /\ body' = body
               /\ activePopoverStack' = activePopoverStack
               /\ timers' = timers
               /\ hideTimeouts' = hideTimeouts
      ]_vars

\* C14: in every reachable state the document has at most one popover
\* element for each popover id.
C14_OneElementPerId ==
    \A e1, e2 \in Elements : body[e1].id = body[e2].id => e1 = e2

\* C14 witness: two hovers of links to page a were in flight together; the
\* fetch of one of them settled and put the element for a in the document,
\* and the other handler is still suspended.
C14_Witness ==
    /\ last.op = "fetch" /\ last.result \in Succeeded
    /\ ElFor("a") # 0
    /\ fetched["a"] = 2
    /\ \E c \in BagToSet(pending) : ~c.stale /\ c.this.ln.path = "a"

\* C15: when the pointer goes from a popover at depth D into a popover at a
\* shallower depth S < D, every popover shown at depth D or deeper is hidden
\* in that step, and every popover shown at a depth less than D, those
\* between S and D included, stays shown.
C15_ShallowerEntryKeepsBetween ==
    [][ \A Pd, Ps \in Elements :
            (/\ PointerMove(InPopover(Ps))
             /\ PopoverOf(pointer) = Pd
             /\ body[Pd].wired /\ body[Pd].active /\ body[Ps].active
             /\ getPopoverDepth(Cur, Ps) < getPopoverDepth(Cur, Pd))
            => \A e \in Elements :
                   body[e].active =>
                       IF getPopoverDepth(Cur, e) >= getPopoverDepth(Cur, Pd)
                       THEN ~body'[e].active
                       ELSE body'[e].active
      ]_vars

\* C16: a hide timer that fires never hides the popover the pointer is
\* inside, for a popover that carries its own pointer-enter and
\* pointer-leave listeners.
C16_NoFlashHide ==
    [][ \A t \in timers :
            (/\ TimerFire(t)
             /\ pointer.kind = "popover"
             /\ body[pointer.el].wired
             /\ body[pointer.el].active)
            => body'[pointer.el].active
      ]_vars

\* C17: every popover element that is shown carries its own pointer-enter
\* and pointer-leave listeners.
C17_VisibleIsWired ==
    \A e \in Elements : body[e].active => body[e].wired

\* C18: a pointer-enter on a link that does not opt out, with computed
\* depth D, leaves no hide timer with a key of D or more pending, and leaves
\* the timers and the registry entries with a key below D as they were,
\* for D below the maximum depth and for D at the maximum depth.
C18_HoverCancelsFromDepth ==
    \A link \in LinkElements :
        ~link.ln.noPopover =>
            LET D == getCurrentPopoverDepth(Cur, link)
                t == mouseEnterHandler(Cur, link)
            IN  /\ \A x \in t.timers : x.depth < D
                /\ \A k \in Keys(t.hideTimeouts) : k < D
                /\ { x \in t.timers : x.depth < D } = { x \in timers : x.depth < D }
                /\ { x \in t.hideTimeouts : x.depth < D }
                       = { x \in hideTimeouts : x.depth < D }

\* C18 witness: the pointer has entered a listening link at depth 2, inside
\* a popover shown at depth 1 that carries its listeners, while a hide timer
\* at depth 0 was pending; that timer is still pending and no other is.
C18_Witness ==
    /\ last.op = "move"
    /\ pointer.kind = "link" /\ pointer.el # Doc
    /\ body[pointer.el].wired /\ body[pointer.el].active
    /\ body[pointer.el].depth = 1
    /\ activeAnchor = LinkEl(pointer.el, pointer.ln)
    /\ Listening(Cur, activeAnchor)
    /\ Keys(hideTimeouts) = {0}
    /\ timers = { [id |-> Get(hideTimeouts, 0), depth |-> 0] }

Idle == pointer = Outside /\ pending = EmptyBag

\* C20: from every reachable state in which the pointer is outside every
\* popover and link and no fetch is pending, if that stays so and pending
\* timers fire, eventually no popover is shown and the depth stack is empty.
C20_IdleEventuallyHidesAll ==
    Idle ~> (\/ ~Idle
             \/ /\ activePopoverStack = <<>>
                /\ \A e \in Elements : ~body[e].active)

====
